---- MODULE Spec2Model ----
(***************************************************************************)
(* project_to_txt.py: walk a directory tree, load every matching file and  *)
(* concatenate the texts into one output document.                         *)
(*                                                                         *)
(* Representation.  A Python str is a sequence of code points, a bytes     *)
(* object a sequence of 0..255, a path a sequence of name components       *)
(* (each a str), an Optional value a sequence of length 0 (None) or 1.     *)
(* String literals of the program are written as code-point tuples with    *)
(* the text in the comment beside them.                                    *)
(***************************************************************************)
EXTENDS Integers, Sequences, FiniteSets, TLC

\* ------------------------------------------------------------------------
\* Generic helpers (sequences are long: no recursion deeper than log n)
\* ------------------------------------------------------------------------

None == <<>>
Some(x) == <<x>>

Min2(a, b) == IF a <= b THEN a ELSE b

SetMax(S) == CHOOSE x \in S : \A y \in S : y <= x
SetMin(S) == CHOOSE x \in S : \A y \in S : x <= y

\* the members of S within lo..hi, in increasing order
RECURSIVE Ordered(_, _, _)
Ordered(S, lo, hi) ==
    IF lo > hi THEN <<>>
    ELSE IF lo = hi THEN (IF lo \in S THEN <<lo>> ELSE <<>>)
    ELSE Ordered(S, lo, (lo + hi) \div 2) \o Ordered(S, (lo + hi) \div 2 + 1, hi)

\* ss[lo] \o ... \o ss[hi]
RECURSIVE Flatten(_, _, _)
Flatten(ss, lo, hi) ==
    IF lo > hi THEN <<>>
    ELSE IF lo = hi THEN ss[lo]
    ELSE Flatten(ss, lo, (lo + hi) \div 2) \o Flatten(ss, (lo + hi) \div 2 + 1, hi)

Concat(ss) == Flatten(ss, 1, Len(ss))

Rep(c, n) == [i \in 1..n |-> c]

IsPrefix(p, s) == Len(p) <= Len(s) /\ SubSeq(s, 1, Len(p)) = p

\* Python's ordering of str (and of the names sorted() compares): by code point
LexLess(a, b) ==
    \/ Len(a) < Len(b) /\ IsPrefix(a, b)
    \/ \E i \in 1..Min2(Len(a), Len(b)) :
          /\ a[i] < b[i]
          /\ \A j \in 1..(i - 1) : a[j] = b[j]

\* sorted(S) for a set of str
RECURSIVE Sorted(_)
Sorted(S) ==
    IF S = {} THEN <<>>
    ELSE LET m == CHOOSE x \in S : \A y \in S \ {x} : LexLess(x, y)
         IN <<m>> \o Sorted(S \ {m})

\* ------------------------------------------------------------------------
\* Python str methods used by the program
\* ------------------------------------------------------------------------

\* str.lower() on the Latin-1 range
LowerChar(c) ==
    IF c \in 65..90 \/ (c \in 192..222 /\ c # 215) THEN c + 32 ELSE c
Lower(s) == [i \in 1..Len(s) |-> LowerChar(s[i])]

\* str.isspace(): what strip() removes
IsSpace(c) ==
    c \in (9..13) \cup (28..32) \cup {133, 160, 5760} \cup (8192..8202)
          \cup {8232, 8233, 8239, 8287, 12288}

\* str.strip()
Strip(s) ==
    LET keep == {i \in 1..Len(s) : ~IsSpace(s[i])}
    IN IF keep = {} THEN <<>> ELSE SubSeq(s, SetMin(keep), SetMax(keep))

\* str.lstrip(".")
LStripDot(s) ==
    LET keep == {i \in 1..Len(s) : s[i] # 46}
    IN IF keep = {} THEN <<>> ELSE SubSeq(s, SetMin(keep), Len(s))

\* str.split(","): the pieces between the commas, empty pieces included
SplitComma(s) ==
    LET cut == Ordered({i \in 1..Len(s) : s[i] = 44}, 1, Len(s))
        n == Len(cut)
        from(k) == IF k = 1 THEN 1 ELSE cut[k - 1] + 1
        to(k) == IF k = n + 1 THEN Len(s) ELSE cut[k] - 1
    IN [k \in 1..(n + 1) |-> SubSeq(s, from(k), to(k))]

\* lower.rsplit(".", 1)[-1]: what follows the last "."
AfterLastDot(s) ==
    SubSeq(s, SetMax({i \in 1..Len(s) : s[i] = 46}) + 1, Len(s))

\* "%d": the decimal digits of n (with the sign)
RECURSIVE Digits(_)
Digits(n) == IF n < 10 THEN <<48 + n>> ELSE Digits(n \div 10) \o <<48 + (n % 10)>>
Dec(n) == IF n < 0 THEN <<45>> \o Digits(0 - n) ELSE Digits(n)

\* f"{i:04d}"
Dec04(i) == LET d == Dec(i) IN Rep(48, 4 - Len(d)) \o d

\* str.splitlines(): the line boundaries of Python's str
IsLineBreak(c) == c \in (10..13) \cup (28..30) \cup {133, 8232, 8233}

splitlines(text) ==
    LET n == Len(text)
        \* a "\r" directly before "\n" is the first half of one boundary
        half(i) == text[i] = 13 /\ i < n /\ text[i + 1] = 10
        ends == {i \in 1..n : IsLineBreak(text[i]) /\ ~half(i)}
        e == Ordered(ends, 1, n)
        k == Len(e)
        from(j) == IF j = 1 THEN 1 ELSE e[j - 1] + 1
        brk(j) == IF e[j] > 1 /\ text[e[j]] = 10 /\ text[e[j] - 1] = 13 THEN 2 ELSE 1
        closed == [j \in 1..k |-> SubSeq(text, from(j), e[j] - brk(j))]
    IN IF k = 0 THEN (IF n = 0 THEN <<>> ELSE <<text>>)
       ELSE IF e[k] = n THEN closed
       ELSE Append(closed, SubSeq(text, e[k] + 1, n))

\* str.expandtabs(tabsize): a tab becomes the spaces up to the next multiple
\* of tabsize; the column restarts after "\n", "\r" (and is a multiple of
\* tabsize after a tab)
expandtabs(text, tabsize) ==
    LET n == Len(text)
        anchor(i) == SetMax({0} \cup {j \in 1..(i - 1) : text[j] \in {9, 10, 13}})
        pad(i) == IF tabsize > 0 THEN tabsize - ((i - 1 - anchor(i)) % tabsize) ELSE 0
    IN Concat([i \in 1..n |-> IF text[i] = 9 THEN Rep(32, pad(i)) ELSE <<text[i]>>])

\* ------------------------------------------------------------------------
\* textwrap.TextWrapper(width, replace_whitespace=False, drop_whitespace=False,
\*                      break_long_words=True, break_on_hyphens=False).wrap
\* ------------------------------------------------------------------------

\* TextWrapper's defaults that the program leaves alone: expand_tabs=True
tabsize == 8

\* textwrap._whitespace
IsWrapWs(c) == c \in {9, 10, 11, 12, 13, 32}

\* TextWrapper._split, break_on_hyphens=False: the chunks are the maximal runs
\* of whitespace and of non-whitespace; a chunk starts where the class changes
ChunkStarts(t) ==
    {i \in 1..Len(t) : i = 1 \/ IsWrapWs(t[i]) # IsWrapWs(t[i - 1])}

\* TextWrapper._wrap_chunks and _handle_long_word on the chunks of t that are
\* left from position p on (bd: the chunk starts of t, and Len(t) + 1).
\* b: where the chunks that fit in the line end; nb: where the next chunk ends.
\* A chunk longer than width is cut to fill the line (break_long_words);
\* no chunk is dropped (drop_whitespace=False).
RECURSIVE WrapChunks(_, _, _, _)
WrapChunks(t, bd, p, width) ==
    LET n == Len(t)
        b == SetMax({x \in bd \cup {p} : x >= p /\ x - p <= width})
        nb == SetMin({x \in bd : x > b})
    IN IF p > n THEN <<>>
       ELSE IF b = n + 1 THEN <<SubSeq(t, p, n)>>
       ELSE IF nb - b > width
            THEN <<SubSeq(t, p, p + width - 1)>> \o WrapChunks(t, bd, p + width, width)
            ELSE <<SubSeq(t, p, b - 1)>> \o WrapChunks(t, bd, b, width)

\* TextWrapper.wrap: _munge_whitespace (expandtabs only: replace_whitespace is
\* off), _split, _wrap_chunks
wrap(text, width) ==
    LET t == expandtabs(text, tabsize)
    IN WrapChunks(t, ChunkStarts(t) \cup {Len(t) + 1}, 1, width)

\* ------------------------------------------------------------------------
\* Codecs
\* ------------------------------------------------------------------------

IsCont(b) == b \in 128..191

\* the length of the UTF-8 sequence a lead byte opens (0: no lead byte)
Utf8Len(b) ==
    IF b < 128 THEN 1
    ELSE IF b \in 194..223 THEN 2
    ELSE IF b \in 224..239 THEN 3
    ELSE IF b \in 240..244 THEN 4
    ELSE 0

\* the range of the second byte: no overlong form, no surrogate, <= U+10FFFF
Utf8Second(lead, b) ==
    IF lead = 224 THEN b \in 160..191
    ELSE IF lead = 237 THEN b \in 128..159
    ELSE IF lead = 240 THEN b \in 144..191
    ELSE IF lead = 244 THEN b \in 128..143
    ELSE IsCont(b)

\* data.decode("utf-8") raises UnicodeDecodeError unless this holds
Utf8Valid(data) ==
    LET n == Len(data)
        unit(i) ==
            LET l == Utf8Len(data[i])
            IN /\ l > 0
               /\ i + l - 1 <= n
               /\ \A j \in (i + 1)..(i + l - 1) : IsCont(data[j])
               /\ l > 1 => Utf8Second(data[i], data[i + 1])
               /\ i + l <= n => ~IsCont(data[i + l])
    IN /\ n > 0 => ~IsCont(data[1])
       /\ \A i \in 1..n : IsCont(data[i]) \/ unit(i)

\* data.decode("utf-8") of valid data
Utf8Decode(data) ==
    LET n == Len(data)
        lead == Ordered({i \in 1..n : ~IsCont(data[i])}, 1, n)
        c(i, k) == data[i + k] - 128
        cp(i) ==
            LET l == Utf8Len(data[i])
            IN IF l = 1 THEN data[i]
               ELSE IF l = 2 THEN (data[i] - 192) * 64 + c(i, 1)
               ELSE IF l = 3 THEN (data[i] - 224) * 4096 + c(i, 1) * 64 + c(i, 2)
               ELSE (data[i] - 240) * 262144 + c(i, 1) * 4096 + c(i, 2) * 64 + c(i, 3)
    IN [k \in 1..Len(lead) |-> cp(lead[k])]

\* data.decode("latin-1", errors="replace"): every byte is a code point
Latin1Decode(data) == [i \in 1..Len(data) |-> data[i]]

\* what the output file's encoding="utf-8" does to the text written
Utf8Encode(text) ==
    LET enc(c) ==
            IF c < 128 THEN <<c>>
            ELSE IF c < 2048 THEN <<192 + (c \div 64), 128 + (c % 64)>>
            ELSE IF c < 65536
                 THEN <<224 + (c \div 4096), 128 + ((c \div 64) % 64), 128 + (c % 64)>>
                 ELSE <<240 + (c \div 262144), 128 + ((c \div 4096) % 64),
                        128 + ((c \div 64) % 64), 128 + (c % 64)>>
    IN Concat([i \in 1..Len(text) |-> enc(text[i])])

\* ------------------------------------------------------------------------
\* The program's constants
\* ------------------------------------------------------------------------

\* .git, target, node_modules, build, dist, .idea, .vscode, .venv,
\* __pycache__, .mvn, .gradle, .pytest_cache, .scannerwork, .sonar,
\* coverage, out, jacoco-report
DEFAULT_EXCLUDE_DIRS ==
    { <<46, 103, 105, 116>>,
      <<116, 97, 114, 103, 101, 116>>,
      <<110, 111, 100, 101, 95, 109, 111, 100, 117, 108, 101, 115>>,
      <<98, 117, 105, 108, 100>>,
      <<100, 105, 115, 116>>,
      <<46, 105, 100, 101, 97>>,
      <<46, 118, 115, 99, 111, 100, 101>>,
      <<46, 118, 101, 110, 118>>,
      <<95, 95, 112, 121, 99, 97, 99, 104, 101, 95, 95>>,
      <<46, 109, 118, 110>>,
      <<46, 103, 114, 97, 100, 108, 101>>,
      <<46, 112, 121, 116, 101, 115, 116, 95, 99, 97, 99, 104, 101>>,
      <<46, 115, 99, 97, 110, 110, 101, 114, 119, 111, 114, 107>>,
      <<46, 115, 111, 110, 97, 114>>,
      <<99, 111, 118, 101, 114, 97, 103, 101>>,
      <<111, 117, 116>>,
      <<106, 97, 99, 111, 99, 111, 45, 114, 101, 112, 111, 114, 116>> }

\* py, js, ts, tsx, jsx, html, css, md, markdown, txt, yml, yaml, json,
\* xml, xsd, properties, ini, cfg, conf, sql, sh, bash, ksh, bat, groovy,
\* kt, gradle, rb, go, c, cc, cpp, h, hpp, env, dockerfile, jenkinsfile
DEFAULT_INCLUDE_EXT ==
    { <<112, 121>>,
      <<106, 115>>,
      <<116, 115>>,
      <<116, 115, 120>>,
      <<106, 115, 120>>,
      <<104, 116, 109, 108>>,
      <<99, 115, 115>>,
      <<109, 100>>,
      <<109, 97, 114, 107, 100, 111, 119, 110>>,
      <<116, 120, 116>>,
      <<121, 109, 108>>,
      <<121, 97, 109, 108>>,
      <<106, 115, 111, 110>>,
      <<120, 109, 108>>,
      <<120, 115, 100>>,
      <<112, 114, 111, 112, 101, 114, 116, 105, 101, 115>>,
      <<105, 110, 105>>,
      <<99, 102, 103>>,
      <<99, 111, 110, 102>>,
      <<115, 113, 108>>,
      <<115, 104>>,
      <<98, 97, 115, 104>>,
      <<107, 115, 104>>,
      <<98, 97, 116>>,
      <<103, 114, 111, 111, 118, 121>>,
      <<107, 116>>,
      <<103, 114, 97, 100, 108, 101>>,
      <<114, 98>>,
      <<103, 111>>,
      <<99>>,
      <<99, 99>>,
      <<99, 112, 112>>,
      <<104>>,
      <<104, 112, 112>>,
      <<101, 110, 118>>,
      <<100, 111, 99, 107, 101, 114, 102, 105, 108, 101>>,
      <<106, 101, 110, 107, 105, 110, 115, 102, 105, 108, 101>> }

\* dockerfile, jenkinsfile
SPECIAL_FILENAMES ==
    { <<100, 111, 99, 107, 101, 114, 102, 105, 108, 101>>,
      <<106, 101, 110, 107, 105, 110, 115, 102, 105, 108, 101>> }

\* --max-bytes default=1_000_000
DEFAULT_MAX_BYTES == 1000000

\* looks_binary(path, sample_size=2048)
SAMPLE_SIZE == 2048

\* textwrap.TextWrapper(width=500, ...)
WRAP_WIDTH == 500

\* "#" * 80 and "-" * 80
RULE_WIDTH == 80

\* "local.txt"
LOCAL_TXT == <<108, 111, 99, 97, 108, 46, 116, 120, 116>>

\* ------------------------------------------------------------------------
\* The file system.  disk maps the path of every file to [data, fault]:
\* its bytes, and what the operating system refuses for it:
\*   "none"  nothing
\*   "stat"  os.path.getsize raises (its directory may be listed but not
\*           searched, or the file vanished after the walk)
\*   "open"  open raises (permission denied)
\*   "read"  reading the whole file raises (an I/O error past the sample)
\* A directory exists when a file lies below it.
\* ------------------------------------------------------------------------

\* str(e) of the exception the fault raises
ErrText(fault) ==
    IF fault = "stat" THEN <<69, 78, 79, 69, 78, 84>>         \* ENOENT
    ELSE IF fault = "open" THEN <<69, 65, 67, 67, 69, 83>>    \* EACCES
    ELSE <<69, 73, 79>>                                       \* EIO

\* os.path.isdir
isdir(paths, d) == \E q \in paths : Len(q) > Len(d) /\ IsPrefix(d, q)

\* os.path.join / abspath render a path with "/" between the names
JoinNames(names) ==
    Concat([k \in 1..Len(names) |->
              IF k = 1 THEN names[k] ELSE <<47>> \o names[k]])
AbsText(path) == <<47>> \o JoinNames(path)

\* os.path.relpath(fpath, root) for a file below root
relpath(fpath, root) == JoinNames(SubSeq(fpath, Len(root) + 1, Len(fpath)))

\* ------------------------------------------------------------------------
\* looks_binary, read_text_safely
\* ------------------------------------------------------------------------

\* looks_binary with the sample forgotten: f.read() for f.read(sample_size)
looks_binary_whole_file(f, sample_size) ==
    IF f.fault = "open" THEN TRUE
    ELSE \E i \in 1..Len(f.data) : f.data[i] = 0

\* looks_binary(path, sample_size): a null byte among the first sample_size
\* bytes; True when the open or the read raises
looks_binary(f, sample_size) ==
    IF f.fault = "open" THEN TRUE
    ELSE \E i \in 1..Min2(Len(f.data), sample_size) : f.data[i] = 0

SizeNote(size, max_bytes) ==
    <<73, 71, 78, 79, 82, 69, 68, 32, 40, 115, 105, 122, 101, 32>>    \* IGNORED (size
        \o Dec(size) \o <<32, 62, 32>> \o Dec(max_bytes)
        \o <<32, 98, 121, 116, 101, 115, 41>>                         \*  bytes)

\* IGNORED (binary file)
BINARY_NOTE ==
    <<73, 71, 78, 79, 82, 69, 68, 32, 40, 98, 105, 110, 97, 114, 121, 32,
      102, 105, 108, 101, 41>>

\* NOTE (decoded as latin-1 with replacements)
LATIN1_NOTE ==
    <<78, 79, 84, 69, 32, 40, 100, 101, 99, 111, 100, 101, 100, 32, 97, 115,
      32, 108, 97, 116, 105, 110, 45, 49, 32, 119, 105, 116, 104, 32, 114,
      101, 112, 108, 97, 99, 101, 109, 101, 110, 116, 115, 41>>

\* IGNORED (error reading: {e})
ErrorNote(e) ==
    <<73, 71, 78, 79, 82, 69, 68, 32, 40, 101, 114, 114, 111, 114, 32, 114,
      101, 97, 100, 105, 110, 103, 58, 32>> \o e \o <<41>>

\* read_text_safely with the size test written size >= max_bytes
read_text_safely_at_limit(f, max_bytes) ==
    IF f.fault = "stat"
    THEN [text |-> None, note |-> Some(ErrorNote(ErrText(f.fault))),
          io |-> <<"getsize">>]
    ELSE IF Len(f.data) >= max_bytes
    THEN [text |-> None, note |-> Some(SizeNote(Len(f.data), max_bytes)),
          io |-> <<"getsize">>]
    ELSE IF looks_binary(f, SAMPLE_SIZE)
    THEN [text |-> None, note |-> Some(BINARY_NOTE),
          io |-> <<"getsize", "sample">>]
    ELSE IF f.fault = "read"
    THEN [text |-> None, note |-> Some(ErrorNote(ErrText(f.fault))),
          io |-> <<"getsize", "sample", "read">>]
    ELSE IF Utf8Valid(f.data)
    THEN [text |-> Some(Utf8Decode(f.data)), note |-> None,
          io |-> <<"getsize", "sample", "read">>]
    ELSE [text |-> Some(Latin1Decode(f.data)), note |-> Some(LATIN1_NOTE),
          io |-> <<"getsize", "sample", "read">>]

\* read_text_safely(path, max_bytes) -> (text, note), with io: the calls it
\* made on the file ("getsize", "sample": looks_binary's open and read,
\* "read": the open and read of the whole file)
read_text_safely(f, max_bytes) ==
    IF f.fault = "stat"
    THEN [text |-> None, note |-> Some(ErrorNote(ErrText(f.fault))),
          io |-> <<"getsize">>]
    ELSE IF Len(f.data) > max_bytes
    THEN [text |-> None, note |-> Some(SizeNote(Len(f.data), max_bytes)),
          io |-> <<"getsize">>]
    ELSE IF looks_binary(f, SAMPLE_SIZE)
    THEN [text |-> None, note |-> Some(BINARY_NOTE),
          io |-> <<"getsize", "sample">>]
    ELSE IF f.fault = "read"
    THEN [text |-> None, note |-> Some(ErrorNote(ErrText(f.fault))),
          io |-> <<"getsize", "sample", "read">>]
    ELSE IF Utf8Valid(f.data)
    THEN [text |-> Some(Utf8Decode(f.data)), note |-> None,
          io |-> <<"getsize", "sample", "read">>]
    ELSE [text |-> Some(Latin1Decode(f.data)), note |-> Some(LATIN1_NOTE),
          io |-> <<"getsize", "sample", "read">>]

\* ------------------------------------------------------------------------
\* should_include, gather_files
\* ------------------------------------------------------------------------

\* should_include without the test of SPECIAL_FILENAMES
should_include_by_ext(filename, include_exts) ==
    LET lower == Lower(filename)
    IN IF \E i \in 1..Len(lower) : lower[i] = 46
       THEN AfterLastDot(lower) \in include_exts
       ELSE FALSE

should_include(filename, include_exts) ==
    LET lower == Lower(filename)
    IN IF lower \in SPECIAL_FILENAMES THEN TRUE
       ELSE IF \E i \in 1..Len(lower) : lower[i] = 46
            THEN AfterLastDot(lower) \in include_exts
            ELSE FALSE

\* what os.walk lists for dirpath: its sub-directories and its files
DirNames(paths, dirpath) ==
    {q[Len(dirpath) + 1] :
        q \in {r \in paths : Len(r) > Len(dirpath) + 1 /\ IsPrefix(dirpath, r)}}
FileNames(paths, dirpath) ==
    {q[Len(dirpath) + 1] :
        q \in {r \in paths : Len(r) = Len(dirpath) + 1 /\ IsPrefix(dirpath, r)}}

\* os.walk(root), top down, with gather_files' pruning of dirnames in place:
\* the directories visited, in the order visited.  Only the directories that
\* dirnames[:] = [d for d in sorted(dirnames) if d not in exclude_dirs] keeps
\* are descended into.
RECURSIVE os_walk(_, _, _)
os_walk(paths, dirpath, exclude_dirs) ==
    LET Kept(d) == d \notin exclude_dirs
        dirnames == SelectSeq(Sorted(DirNames(paths, dirpath)), Kept)
    IN <<dirpath>>
       \o Concat([k \in 1..Len(dirnames) |->
                    os_walk(paths, Append(dirpath, dirnames[k]), exclude_dirs)])

\* gather_files without sorted(filenames): the names in the order the
\* directory gives them, here the reverse of the sorted one
gather_files_unsorted(paths, root, include_exts, exclude_dirs) ==
    LET Wanted(fname) == should_include(fname, include_exts)
        visited == os_walk(paths, root, exclude_dirs)
        here(dirpath) ==
            LET names == Sorted(FileNames(paths, dirpath))
                listed == [k \in 1..Len(names) |-> names[Len(names) + 1 - k]]
                filenames == SelectSeq(listed, Wanted)
            IN [k \in 1..Len(filenames) |-> Append(dirpath, filenames[k])]
    IN Concat([j \in 1..Len(visited) |-> here(visited[j])])

gather_files(paths, root, include_exts, exclude_dirs) ==
    LET Wanted(fname) == should_include(fname, include_exts)
        visited == os_walk(paths, root, exclude_dirs)
        here(dirpath) ==
            LET filenames == SelectSeq(Sorted(FileNames(paths, dirpath)), Wanted)
            IN [k \in 1..Len(filenames) |-> Append(dirpath, filenames[k])]
    IN Concat([j \in 1..Len(visited) |-> here(visited[j])])

\* ------------------------------------------------------------------------
\* write_header, write_file_block.  The document is the sequence of the
\* lines written, each [kind, text]: text is the line without its "\n",
\* kind names the out.write that wrote it.
\* ------------------------------------------------------------------------

Line(kind, text) == [kind |-> kind, text |-> text]

\* Files found:
FOUND_LABEL == <<70, 105, 108, 101, 115, 32, 102, 111, 117, 110, 100, 58, 32>>

write_header(root, files, add_toc, now) ==
    LET toc ==
            <<Line("toc_title", <<84, 65, 66, 76, 69, 32, 79, 70, 32, 67, 79,
                                  78, 84, 69, 78, 84, 83>>)>>   \* TABLE OF CONTENTS
            \o [i \in 1..Len(files) |->
                   Line("toc", Dec04(i) \o <<46, 32>> \o relpath(files[i], root))]
            \o <<Line("blank", <<>>), Line("rule", Rep(35, RULE_WIDTH)),
                 Line("blank", <<>>)>>
    IN <<Line("title", <<35, 32, 84, 69, 88, 84, 32, 69, 88, 80, 79, 82, 84, 32,
                         79, 70, 32, 80, 82, 79, 74, 69, 67, 84>>),   \* # TEXT EXPORT OF PROJECT
         Line("root", <<82, 111, 111, 116, 58, 32>> \o AbsText(root)),  \* Root:
         Line("generated",
              <<71, 101, 110, 101, 114, 97, 116, 101, 100, 58, 32>> \o now),  \* Generated:
         Line("found", FOUND_LABEL \o Dec(Len(files))),
         Line("rule", Rep(35, RULE_WIDTH)),
         Line("blank", <<>>)>>
       \o (IF add_toc THEN toc ELSE <<>>)

\* ===== FILE:
FILE_MARK == <<61, 61, 61, 61, 61, 32, 70, 73, 76, 69, 58, 32>>
\* ===== END FILE:
END_MARK == <<61, 61, 61, 61, 61, 32, 69, 78, 68, 32, 70, 73, 76, 69, 58, 32>>
\*  =====
MARK_END == <<32, 61, 61, 61, 61, 61>>

\* the lines write_file_block writes for one line of the text
BodyLines(raw) ==
    LET wrapped == wrap(raw, WRAP_WIDTH)
    IN IF wrapped # <<>>
       THEN [k \in 1..Len(wrapped) |-> Line("body", wrapped[k])]
       ELSE <<Line("body", <<>>)>>

\* write_file_block returning at once when there is no text
write_file_block_text_only(rel_path, text, note) ==
    LET sep == Rep(45, RULE_WIDTH)
        lines == splitlines(text[1])
    IN IF text = None
       THEN <<>>
       ELSE <<Line("start", FILE_MARK \o rel_path \o MARK_END), Line("sep", sep)>>
            \o Concat([k \in 1..Len(lines) |-> BodyLines(lines[k])])
            \o <<Line("sep", sep), Line("end", END_MARK \o rel_path \o MARK_END),
                 Line("blank", <<>>)>>

write_file_block(rel_path, text, note) ==
    LET sep == Rep(45, RULE_WIDTH)
        lines == splitlines(text[1])
        noteText == IF note = None THEN <<78, 111, 110, 101>> ELSE note[1]
    IN IF text = None
       THEN <<Line("skipped",
                   FILE_MARK \o rel_path \o <<32, 40>> \o noteText \o <<41>> \o MARK_END),
              Line("sep", sep), Line("blank", <<>>)>>
       ELSE <<Line("start", FILE_MARK \o rel_path \o MARK_END), Line("sep", sep)>>
            \o Concat([k \in 1..Len(lines) |-> BodyLines(lines[k])])
            \o <<Line("sep", sep), Line("end", END_MARK \o rel_path \o MARK_END),
                 Line("blank", <<>>)>>

\* the bytes of the document
Render(doc) ==
    Utf8Encode(Concat([k \in 1..Len(doc) |-> Append(doc[k].text, 10)]))

\* ------------------------------------------------------------------------
\* main.  One run of the program is MainNoRoot, or MainGather, MainOpen,
\* MainLoop for every candidate and MainFinish.
\* ------------------------------------------------------------------------

VARIABLES
    args,          \* parse_args(): root, output, max_bytes, include, exclude_dirs, toc
    script_dir,    \* os.path.dirname(__file__), absolute
    disk,          \* the file system
    run,           \* the number of this run of the program
    pc,            \* "start", "open", "loop", "exit0", "exit1"
    root, output, include_exts, exclude_dirs, files, written,   \* main's locals
    done,          \* how many candidates the loop has handled
    out,           \* the lines written to the output file
    stdout, stderr,
    loads,         \* history: what read_text_safely returned for each candidate handled
    visited,       \* history: the directories os.walk visited
    prev           \* history: the document of the previous run

vars == <<args, script_dir, disk, run, pc, root, output, include_exts,
          exclude_dirs, files, written, done, out, stdout, stderr, loads,
          visited, prev>>

\* main's locals before main has run
Fresh ==
    /\ pc = "start"
    /\ root = <<>> /\ output = <<>>
    /\ include_exts = {} /\ exclude_dirs = {}
    /\ files = <<>> /\ written = 0 /\ done = 0
    /\ out = <<>> /\ stdout = <<>> /\ stderr = <<>> /\ loads = <<>>
    /\ visited = <<>>

\* args.root or script_dir; args.output or os.path.join(script_dir, "local.txt")
RootOf(a, sd) == IF a.root # None THEN a.root[1] ELSE sd
OutputOf(a, sd) == IF a.output # None THEN a.output[1] ELSE Append(sd, LOCAL_TXT)

\* {x.strip().lower().lstrip(".") for x in args.include.split(",") if x.strip()}
IncludeExts(a) ==
    IF Strip(a.include) # <<>>
    THEN LET tok == SplitComma(a.include)
         IN {LStripDot(Lower(Strip(tok[k]))) :
                k \in {j \in 1..Len(tok) : Strip(tok[j]) # <<>>}}
    ELSE DEFAULT_INCLUDE_EXT

\* exclude_dirs = {...} for exclude_dirs |= {...}: the names given replace
\* the default set
ExcludeDirs_replacing(a) ==
    IF Strip(a.exclude_dirs) # <<>>
    THEN LET tok == SplitComma(a.exclude_dirs)
         IN {Strip(tok[k]) : k \in {j \in 1..Len(tok) : Strip(tok[j]) # <<>>}}
    ELSE DEFAULT_EXCLUDE_DIRS

\* exclude_dirs |= {x.strip() for x in args.exclude_dirs.split(",") if x.strip()}
ExcludeDirs(a) ==
    IF Strip(a.exclude_dirs) # <<>>
    THEN LET tok == SplitComma(a.exclude_dirs)
         IN DEFAULT_EXCLUDE_DIRS
              \cup {Strip(tok[k]) : k \in {j \in 1..Len(tok) : Strip(tok[j]) # <<>>}}
    ELSE DEFAULT_EXCLUDE_DIRS

\* datetime.datetime.now().isoformat(timespec="seconds"): the text of the
\* second the run starts in; the runs start in successive seconds
NowText(r) == <<84>> \o Dec(r)

\* lines 139-146: the root is no directory
MainNoRoot ==
    /\ pc = "start"
    /\ ~isdir(DOMAIN disk, RootOf(args, script_dir))
    /\ root' = RootOf(args, script_dir)
    /\ output' = OutputOf(args, script_dir)
    /\ stderr' = <<<<69, 82, 82, 79, 82, 58, 32, 100, 105, 114, 101, 99, 116,
                     111, 114, 121, 32, 110, 111, 116, 32, 102, 111, 117, 110,
                     100, 58, 32>> \o AbsText(root')>>   \* ERROR: directory not found:
    /\ pc' = "exit1"
    /\ UNCHANGED <<args, script_dir, disk, run, include_exts, exclude_dirs,
                   files, written, done, out, stdout, loads, visited, prev>>

\* lines 139-156
MainGather ==
    /\ pc = "start"
    /\ isdir(DOMAIN disk, RootOf(args, script_dir))
    /\ root' = RootOf(args, script_dir)
    /\ output' = OutputOf(args, script_dir)
    /\ include_exts' = IncludeExts(args)
    /\ exclude_dirs' = ExcludeDirs(args)
    /\ files' = gather_files(DOMAIN disk, root', include_exts', exclude_dirs')
    /\ visited' = os_walk(DOMAIN disk, root', exclude_dirs')
    /\ pc' = "open"
    /\ UNCHANGED <<args, script_dir, disk, run, written, done, out, stdout,
                   stderr, loads, prev>>

\* lines 158-161: open(output, "w") creates or empties the file
MainOpen ==
    /\ pc = "open"
    /\ disk' = [q \in DOMAIN disk \cup {output} |->
                  IF q = output THEN [data |-> <<>>, fault |-> "none"] ELSE disk[q]]
    /\ written' = 0
    /\ out' = write_header(root, files, args.toc, NowText(run))
    /\ pc' = "loop"
    /\ UNCHANGED <<args, script_dir, run, root, output, include_exts,
                   exclude_dirs, files, done, stdout, stderr, loads, visited, prev>>

\* What a candidate's path holds when it is read.  The output file is open
\* for writing: it holds the part of the document that Python's buffers have
\* passed on, a prefix of what was written; the two ends are taken.
OnDisk(f) ==
    IF f = output
    THEN {[data |-> <<>>, fault |-> "none"], [data |-> Render(out), fault |-> "none"]}
    ELSE {disk[f]}

\* lines 162-167, one iteration
MainLoop ==
    /\ pc = "loop"
    /\ done < Len(files)
    /\ \E file \in OnDisk(files[done + 1]) :
          LET f == files[done + 1]
              rel == relpath(f, root)
              r == read_text_safely(file, args.max_bytes)
          IN /\ out' = out \o write_file_block(rel, r.text, r.note)
             /\ written' = IF r.text # None THEN written + 1 ELSE written
             /\ loads' = Append(loads, r)
    /\ done' = done + 1
    /\ UNCHANGED <<args, script_dir, disk, run, pc, root, output, include_exts,
                   exclude_dirs, files, stdout, stderr, visited, prev>>

\* Files successfully written:
WRITTEN_LABEL ==
    <<70, 105, 108, 101, 115, 32, 115, 117, 99, 99, 101, 115, 115, 102,
      117, 108, 108, 121, 32, 119, 114, 105, 116, 116, 101, 110, 58, 32>>

\* the end of the with block (the file is closed) and lines 169-170
MainFinish ==
    /\ pc = "loop"
    /\ done = Len(files)
    /\ disk' = [disk EXCEPT ![output] = [data |-> Render(out), fault |-> "none"]]
    /\ stdout' =
          <<<<69, 120, 112, 111, 114, 116, 32, 99, 111, 109, 112, 108, 101, 116,
              101, 58, 32>> \o AbsText(output),              \* Export complete:
            WRITTEN_LABEL \o Dec(written) \o <<47>> \o Dec(Len(files))>>
    /\ pc' = "exit0"
    /\ UNCHANGED <<args, script_dir, run, root, output, include_exts,
                   exclude_dirs, files, written, done, out, stderr, loads,
                   visited, prev>>

\* ------------------------------------------------------------------------
\* Bounds, and the inputs of the runs checked
\* ------------------------------------------------------------------------

MaxRuns == 2       \* runs of the program, one after the other
MaxFiles == 2      \* files of a project of Spec
MaxTree == 3       \* files of a project of SpecGather
MaxTail == 2       \* bytes of a file of SpecLoad that follow its padding

\* the program is run again, with the same arguments, on what the run left
RunAgain ==
    /\ pc = "exit0"
    /\ run < MaxRuns
    /\ run' = run + 1
    /\ prev' = out
    /\ pc' = "start"
    /\ root' = <<>> /\ output' = <<>>
    /\ include_exts' = {} /\ exclude_dirs' = {}
    /\ files' = <<>> /\ written' = 0 /\ done' = 0
    /\ out' = <<>> /\ stdout' = <<>> /\ stderr' = <<>> /\ loads' = <<>>
    /\ visited' = <<>>
    /\ UNCHANGED <<args, script_dir, disk>>

\* names
N_a_py == <<97, 46, 112, 121>>                                      \* a.py
N_b_js == <<98, 46, 106, 115>>                                      \* b.js
N_Dockerfile == <<68, 111, 99, 107, 101, 114, 102, 105, 108, 101>>  \* Dockerfile
N_a_txt == <<97, 46, 116, 120, 116>>                                \* a.txt
N_b_txt == <<98, 46, 116, 120, 116>>                                \* b.txt
N_export_txt == <<101, 120, 112, 111, 114, 116, 46, 116, 120, 116>> \* export.txt
N_script ==                                                         \* project_to_txt.py
    <<112, 114, 111, 106, 101, 99, 116, 95, 116, 111, 95, 116, 120, 116, 46, 112, 121>>
D_node_modules == <<110, 111, 100, 101, 95, 109, 111, 100, 117, 108, 101, 115>>
D_custom == <<99, 117, 115, 116, 111, 109>>                         \* custom
D_src == <<115, 114, 99>>                                           \* src

ScriptDir == <<<<115>>>>      \* /s: where the program lies
ProjDir == <<<<112>>>>        \* /p: a project
MissingDir == <<<<109>>>>     \* /m: no directory
OutDir == <<<<111>>>>         \* /o: a directory outside the project

File(data, fault) == [data |-> data, fault |-> fault]

\* the program's own file (its text stands for the source)
ScriptFile == File(<<35, 10>>, "none")

\* the functions from at most max members of universe to kinds
Trees(universe, kinds, max) ==
    UNION {[S -> kinds] : S \in {T \in SUBSET universe : Cardinality(T) <= max}}

\* the file system with the project tree below base, and the program in ScriptDir
DiskOf(tree, base) ==
    [q \in {base \o r : r \in DOMAIN tree} \cup {Append(ScriptDir, N_script)} |->
        IF q = Append(ScriptDir, N_script) /\ q \notin {base \o r : r \in DOMAIN tree}
        THEN ScriptFile
        ELSE tree[SubSeq(q, Len(base) + 1, Len(q))]]

Args(r, o, mb, inc, exc, toc) ==
    [root |-> r, output |-> o, max_bytes |-> mb, include |-> inc,
     exclude_dirs |-> exc, toc |-> toc]

Start(a, d) ==
    /\ args = a /\ script_dir = ScriptDir /\ disk = d
    /\ run = 1 /\ prev = <<>>
    /\ Fresh

\* Spec: projects of a few files that load in every way, exported once and
\* again, from the program's directory (the defaults) or from another, to a
\* file inside or outside the project
SpecKinds ==
    {File(<<104, 105, 10>>, "none"),     \* "hi\n"
     File(<<255>>, "none"),              \* no UTF-8
     File(<<0>>, "none"),                \* a null byte
     File(<<120>>, "stat")}              \* vanished
SpecPaths == {<<N_a_txt>>, <<N_b_txt>>, <<D_src, N_a_py>>}

Init ==
    \E tree \in Trees(SpecPaths, SpecKinds, MaxFiles),
       r \in {None, Some(ProjDir), Some(MissingDir)},
       o \in {"default", "inside", "outside"},
       toc \in BOOLEAN :
        LET a == Args(r, None, DEFAULT_MAX_BYTES, <<>>, <<>>, toc)
            base == IF r = Some(MissingDir) THEN ProjDir ELSE RootOf(a, ScriptDir)
            outp == IF o = "default" THEN None
                    ELSE IF o = "inside" THEN Some(Append(base, N_export_txt))
                    ELSE Some(Append(OutDir, N_export_txt))
        IN Start([a EXCEPT !.output = outp], DiskOf(tree, base))

\* SpecGather: the trees of at most MaxTree files, under every --include and
\* --exclude-dirs tried
GatherPaths ==
    {<<N_a_py>>, <<N_b_js>>, <<N_Dockerfile>>, <<N_a_txt>>, <<N_b_txt>>,
     <<D_node_modules, N_a_py>>, <<D_custom, N_a_py>>, <<D_src, N_a_py>>,
     <<D_src, N_b_txt>>, <<D_src, D_custom, N_a_py>>}
GatherIncludes ==
    {<<>>, <<112, 121>>, <<46, 80, 89, 44, 32, 116, 120, 116>>}   \* "", "py", ".PY, txt"
GatherExcludes ==
    {<<>>, D_custom, <<32, 99, 117, 115, 116, 111, 109, 32, 44, 115, 114, 99>>}
                                                       \* "", "custom", " custom ,src"

InitGather ==
    \E tree \in Trees(GatherPaths, {File(<<120, 10>>, "none")}, MaxTree),
       r \in {ProjDir, MissingDir},
       inc \in GatherIncludes, exc \in GatherExcludes, toc \in BOOLEAN :
        /\ r = MissingDir => (tree = <<>> /\ inc = <<>> /\ exc = <<>> /\ ~toc)
        /\ Start(Args(Some(r), Some(Append(OutDir, N_export_txt)),
                      DEFAULT_MAX_BYTES, inc, exc, toc),
                 DiskOf(tree, ProjDir))

\* SpecLoad: one file, its bytes a padding of "a" up to the wrapping width or
\* the sample size followed by every tail of at most MaxTail bytes; it is
\* named a.py, or Dockerfile (no extension) under the limit of SAMPLE_SIZE
LoadBytes == {0, 9, 10, 32, 97, 255}
LoadTails ==
    UNION {[1..n -> LoadBytes] : n \in 0..MaxTail} \cup {<<195, 169>>}   \* and "é"
LoadPads == {0, WRAP_WIDTH - 1, SAMPLE_SIZE - 1, SAMPLE_SIZE}
LoadFiles ==
    {File(Rep(97, k) \o t, "none") : k \in LoadPads, t \in LoadTails}
      \cup {File(t, fl) : t \in LoadTails, fl \in {"stat", "open", "read"}}
LoadMaxBytes == {1, SAMPLE_SIZE, DEFAULT_MAX_BYTES}

InitLoad ==
    \E f \in LoadFiles, name \in {N_a_py, N_Dockerfile},
       r \in {ProjDir, MissingDir}, mb \in LoadMaxBytes :
        /\ r = MissingDir => (f = File(<<>>, "none") /\ name = N_a_py /\ mb = 1)
        /\ name = N_Dockerfile => mb = SAMPLE_SIZE
        /\ Start(Args(Some(r), Some(Append(OutDir, N_export_txt)), mb,
                      <<>>, <<>>, FALSE),
                 DiskOf([q \in {<<name>>} |-> f], ProjDir))

OneRun == MainNoRoot \/ MainGather \/ MainOpen \/ MainLoop \/ MainFinish

Next == OneRun \/ RunAgain

Spec == Init /\ [][Next]_vars
SpecGather == InitGather /\ [][OneRun]_vars
SpecLoad == InitLoad /\ [][OneRun]_vars

\* ------------------------------------------------------------------------
\* Reading the document
\* ------------------------------------------------------------------------

\* where the blocks of the document start
BlockStarts(doc) ==
    Ordered({i \in 1..Len(doc) : doc[i].kind \in {"start", "skipped"}}, 1, Len(doc))

\* the lines of the k-th block
Block(doc, k) ==
    LET st == BlockStarts(doc)
    IN SubSeq(doc, st[k], IF k < Len(st) THEN st[k + 1] - 1 ELSE Len(doc))

\* the lines of a kind, in their order
OfKind(doc, kind) ==
    LET Is(l) == l.kind = kind IN SelectSeq(doc, Is)

\* sub occurs in text
Contains(text, sub) ==
    \E i \in 0..(Len(text) - Len(sub)) : SubSeq(text, i + 1, i + Len(sub)) = sub

\* the relative path of the k-th candidate
Rel(k) == relpath(files[k], root)

\* the candidates handled so far whose load result holds text
WithText == {k \in 1..Len(loads) : loads[k].text # None}

\* ------------------------------------------------------------------------
\* C1.  In every run that reaches the export loop the document holds one
\* block for every candidate handled, the k-th block naming the k-th
\* candidate (a full block with its end marker when the load result holds
\* text, the three-line skipped block otherwise); "Files found" is the number
\* of candidates; and at the end every candidate has its block and the
\* summary prints the number of blocks with text over the number of
\* candidates.
\* ------------------------------------------------------------------------
C1_OneBlockPerCandidate ==
    pc \in {"loop", "exit0"} =>
        /\ Len(BlockStarts(out)) = done
        /\ Len(loads) = done
        /\ \A k \in 1..done :
              LET b == Block(out, k)
              IN IF loads[k].text # None
                 THEN /\ b[1] = Line("start", FILE_MARK \o Rel(k) \o MARK_END)
                      /\ OfKind(b, "end") = <<Line("end", END_MARK \o Rel(k) \o MARK_END)>>
                 ELSE /\ b[1].kind = "skipped"
                      /\ IsPrefix(FILE_MARK \o Rel(k) \o <<32, 40>>, b[1].text)
                      /\ OfKind(b, "body") = <<>> /\ OfKind(b, "end") = <<>>
        /\ OfKind(out, "found") = <<Line("found", FOUND_LABEL \o Dec(Len(files)))>>
        /\ pc = "exit0" =>
              /\ done = Len(files)
              /\ stdout[2] = WRITTEN_LABEL \o Dec(Cardinality(WithText))
                                \o <<47>> \o Dec(Len(files))

\* a finished run of three candidates, with and without text
C1_Witness ==
    /\ pc = "exit0"
    /\ Len(files) = 3
    /\ Cardinality(WithText) = 2

\* ------------------------------------------------------------------------
\* C2 (as stated).  With --include "py" the include set is {"py"}, and on the
\* tree of a.py, b.js and Dockerfile the only candidate is a.py.
\* ------------------------------------------------------------------------
C2_Case ==
    /\ pc \in {"open", "loop", "exit0"}
    /\ args.include = <<112, 121>>
    /\ root = ProjDir
    /\ {q \in DOMAIN disk : IsPrefix(ProjDir, q)}
          = {Append(ProjDir, N_a_py), Append(ProjDir, N_b_js),
             Append(ProjDir, N_Dockerfile)}

C2_OnlyPy ==
    C2_Case => /\ include_exts = {<<112, 121>>}
               /\ files = <<Append(ProjDir, N_a_py)>>

\* the files os.walk lists in the directories it visits
Listed ==
    {q \in DOMAIN disk :
        \E j \in 1..Len(visited) : SubSeq(q, 1, Len(q) - 1) = visited[j]}

\* the name ends in ".py", in any case of the letters
IsPyName(name) ==
    /\ Len(name) >= 3
    /\ name[Len(name) - 2] = 46
    /\ name[Len(name) - 1] \in {80, 112}
    /\ name[Len(name)] \in {89, 121}

\* the name is Dockerfile or Jenkinsfile, in any case of the letters
IsSpecialName(name) == Lower(name) \in SPECIAL_FILENAMES

\* ------------------------------------------------------------------------
\* C2 (amended).  With --include "py" the include set is {"py"}, replacing
\* the default set; the candidates are the listed files named *.py and,
\* whatever the include set, those named Dockerfile or Jenkinsfile: on the
\* tree of a.py, b.js and Dockerfile they are Dockerfile and a.py, in that
\* order, and b.js is no candidate.
\* ------------------------------------------------------------------------
C2_PyAndSpecial ==
    /\ C2_Case => /\ include_exts = {<<112, 121>>}
                  /\ files = <<Append(ProjDir, N_Dockerfile), Append(ProjDir, N_a_py)>>
    /\ (pc \in {"open", "loop", "exit0"} /\ args.include = <<112, 121>>) =>
          {files[k] : k \in 1..Len(files)}
             = {q \in Listed : IsPyName(q[Len(q)]) \/ IsSpecialName(q[Len(q)])}

C2_Witness == C2_Case /\ pc = "exit0"

\* ------------------------------------------------------------------------
\* C7.  The exclude set is the default set and the names given with
\* --exclude-dirs; no candidate lies under, and os.walk visits, no directory
\* below the root whose name is in it.  With --exclude-dirs "custom" nothing
\* below node_modules/ or custom/ is a candidate.
\* ------------------------------------------------------------------------
C7_Given ==
    IF args.exclude_dirs = <<>> THEN {}
    ELSE IF args.exclude_dirs = D_custom THEN {D_custom}
    ELSE {D_custom, D_src}                      \* " custom ,src"

C7_Below(path, upto) == {path[i] : i \in (Len(root) + 1)..upto}

C7_ExcludeUnion ==
    pc \in {"open", "loop", "exit0"} =>
        /\ exclude_dirs = DEFAULT_EXCLUDE_DIRS \cup C7_Given
        /\ \A k \in 1..Len(files) :
              C7_Below(files[k], Len(files[k]) - 1)
                 \cap (DEFAULT_EXCLUDE_DIRS \cup C7_Given) = {}
        /\ \A j \in 1..Len(visited) :
              C7_Below(visited[j], Len(visited[j]))
                 \cap (DEFAULT_EXCLUDE_DIRS \cup C7_Given) = {}
        /\ args.exclude_dirs = D_custom =>
              \A k \in 1..Len(files) :
                 C7_Below(files[k], Len(files[k]) - 1)
                    \cap {D_node_modules, D_custom} = {}

\* node_modules/ and custom/ both hold a file, beside one that is a candidate
C7_Witness ==
    /\ pc = "exit0"
    /\ args.exclude_dirs = D_custom
    /\ ProjDir \o <<D_node_modules, N_a_py>> \in DOMAIN disk
    /\ ProjDir \o <<D_custom, N_a_py>> \in DOMAIN disk
    /\ files # <<>>

\* ------------------------------------------------------------------------
\* C9.  The candidates of one directory are in the order of their names
\* (a.txt before b.txt); with --toc the table of contents has one entry for
\* every candidate, in the order of the candidates, the i-th numbered i on
\* four digits (0001, 0002, ...), and names the path the i-th block names.
\* ------------------------------------------------------------------------
C9_Dir(f) == SubSeq(f, 1, Len(f) - 1)

C9_OrderAndToc ==
    pc \in {"open", "loop", "exit0"} =>
        /\ \A i, j \in 1..Len(files) :
              (i < j /\ C9_Dir(files[i]) = C9_Dir(files[j]))
                  => LexLess(files[i][Len(files[i])], files[j][Len(files[j])])
        /\ \A i, j \in 1..Len(files) :
              (files[i] = Append(root, N_b_txt) /\ files[j] = Append(root, N_a_txt))
                  => j < i
        /\ (pc # "open" /\ args.toc) =>
              LET toc == OfKind(out, "toc")
              IN /\ Len(toc) = Len(files)
                 /\ \A k \in 1..Len(toc) :
                       toc[k].text = Dec04(k) \o <<46, 32>> \o Rel(k)
                 /\ Len(toc) >= 1 => IsPrefix(<<48, 48, 48, 49>>, toc[1].text)
                 /\ Len(toc) >= 2 => IsPrefix(<<48, 48, 48, 50>>, toc[2].text)
                 /\ \A k \in 1..Len(BlockStarts(out)) :
                       /\ IsPrefix(FILE_MARK \o SubSeq(toc[k].text, 7, Len(toc[k].text)),
                                   Block(out, k)[1].text)
                       /\ \A i \in 1..Len(out) :
                             out[i].kind = "toc" => i < BlockStarts(out)[k]

\* a.txt and b.txt of the root, listed in a table of contents
C9_Witness ==
    /\ pc = "exit0"
    /\ args.toc
    /\ \E i, j \in 1..Len(files) :
          /\ files[i] = Append(root, N_a_txt)
          /\ files[j] = Append(root, N_b_txt)
          /\ i < j

\* ------------------------------------------------------------------------
\* The file a candidate handled was loaded from (its path is not the output)
\* ------------------------------------------------------------------------
Handled == 1..Len(loads)
Loaded(k) == disk[files[k]]
Size(k) == Len(Loaded(k).data)

\* a null byte among the bytes lo..hi of the k-th candidate
NulIn(k, lo, hi) ==
    \E i \in lo..Min2(hi, Size(k)) : Loaded(k).data[i] = 0

\* the texts of the body lines of the k-th block
Body(k) ==
    LET b == OfKind(Block(out, k), "body") IN [i \in 1..Len(b) |-> b[i].text]

\* an operation of the load of the k-th candidate raises: getsize, the open
\* for the sample (reached when the size is within the limit), or the read
\* of the whole file (reached when the sample holds no null byte)
Raises(k) ==
    \/ Loaded(k).fault = "stat"
    \/ Loaded(k).fault = "open" /\ Size(k) <= args.max_bytes
    \/ Loaded(k).fault = "read" /\ Size(k) <= args.max_bytes /\ ~NulIn(k, 1, 2048)

\* ------------------------------------------------------------------------
\* C3.  An error raised while a candidate is loaded (by getsize, by the
\* sample's open and read, by the read of the whole file) gives no text and
\* the "error reading" skip reason with the error's text, never another
\* reason, and the run handles every candidate.
\* ------------------------------------------------------------------------
C3_ErrorIsReadError ==
    /\ \A k \in Handled :
          Raises(k) =>
              /\ loads[k].text = None
              /\ loads[k].note = Some(ErrorNote(ErrText(Loaded(k).fault)))
    /\ pc = "exit0" => Len(loads) = Len(files)

\* the open of the sample raises for a file within the limit, and the block
\* gives the binary file reason
C3_Witness ==
    /\ pc = "exit0"
    /\ Len(loads) = 1
    /\ Loaded(1).fault = "open"
    /\ Size(1) <= args.max_bytes
    /\ loads[1].note = Some(BINARY_NOTE)

\* ------------------------------------------------------------------------
\* C4.  The body lines written for a text split into consecutive groups, one
\* for every line of the text, whose lines put together again are that line,
\* character for character; an empty line has one empty body line; no body
\* line is longer than 500 characters.
\* ------------------------------------------------------------------------
RECURSIVE C4_Rejoins(_, _)
C4_Rejoins(lines, body) ==
    IF lines = <<>> THEN body = <<>>
    ELSE \E m \in 1..Len(body) :
            /\ Concat(SubSeq(body, 1, m)) = Head(lines)
            /\ Head(lines) = <<>> => m = 1
            /\ C4_Rejoins(Tail(lines), SubSeq(body, m + 1, Len(body)))

C4_WrapKeepsEveryCharacter ==
    \A k \in WithText :
        /\ C4_Rejoins(splitlines(loads[k].text[1]), Body(k))
        /\ \A i \in 1..Len(Body(k)) : Len(Body(k)[i]) <= 500

\* the text of one tab is written as a line of eight spaces
C4_Witness ==
    /\ pc = "exit0"
    /\ Len(loads) = 1
    /\ loads[1].text = Some(<<9>>)
    /\ Body(1) = <<Rep(32, 8)>>

\* ------------------------------------------------------------------------
\* C5 (as stated).  A candidate of more than max_bytes bytes is neither
\* sampled nor read, and its block is the skipped one: the start marker with
\* the size and the limit, the separator, no body, no end marker.  A
\* candidate of exactly max_bytes bytes is not skipped for its size.
\* ------------------------------------------------------------------------
C5_SizeBlock(k) ==
    /\ loads[k].io = <<"getsize">>
    /\ loads[k].text = None
    /\ Block(out, k) =
          <<Line("skipped",
                 FILE_MARK \o Rel(k) \o <<32, 40>>
                    \o SizeNote(Size(k), args.max_bytes) \o <<41>> \o MARK_END),
            Line("sep", Rep(45, 80)), Line("blank", <<>>)>>
    /\ Contains(Block(out, k)[1].text, Dec(Size(k)))
    /\ Contains(Block(out, k)[1].text, Dec(args.max_bytes))

C5_NotForSize(k) ==
    loads[k].note # Some(SizeNote(Size(k), args.max_bytes))

C5_OverLimitNeverRead ==
    \A k \in Handled :
        /\ Size(k) > args.max_bytes => C5_SizeBlock(k)
        /\ Size(k) = args.max_bytes => C5_NotForSize(k)

\* ------------------------------------------------------------------------
\* C5 (amended).  A candidate whose size os.path.getsize returns, and is more
\* than max_bytes, is neither sampled nor read, and its block is the skipped
\* one: the start marker with the size and the limit, the separator, no
\* body, no end marker.  A candidate of exactly max_bytes bytes is not
\* skipped for its size.
\* ------------------------------------------------------------------------
C5_OverLimitNeverReadWhenSized ==
    \A k \in Handled :
        /\ (Loaded(k).fault # "stat" /\ Size(k) > args.max_bytes) => C5_SizeBlock(k)
        /\ Size(k) = args.max_bytes => C5_NotForSize(k)

\* a file over the limit, null bytes in it, has its skipped block
C5_Witness ==
    /\ pc = "exit0"
    /\ Len(loads) = 1
    /\ Loaded(1).fault = "none"
    /\ Size(1) > args.max_bytes
    /\ NulIn(1, 1, Size(1))

\* ------------------------------------------------------------------------
\* C6 (as stated).  A candidate with a null byte among its first 2048 bytes
\* is skipped as a binary file, whatever its name, its size and max_bytes; a
\* null byte after byte 2048 only does not make it skipped as binary.
\* ------------------------------------------------------------------------
C6_Binary(k) ==
    /\ loads[k].text = None
    /\ loads[k].note = Some(BINARY_NOTE)
    /\ Block(out, k)[1] =
          Line("skipped",
               FILE_MARK \o Rel(k) \o <<32, 40>> \o BINARY_NOTE \o <<41>> \o MARK_END)

C6_NulAlwaysBinary ==
    \A k \in Handled :
        /\ NulIn(k, 1, 2048) => C6_Binary(k)
        /\ (~NulIn(k, 1, 2048) /\ NulIn(k, 2049, Size(k)) /\ Loaded(k).fault # "open")
              => loads[k].note # Some(BINARY_NOTE)

\* ------------------------------------------------------------------------
\* C6 (amended).  A candidate whose size os.path.getsize returns, and is at
\* most max_bytes, with a null byte among its first 2048 bytes, is skipped as
\* a binary file, whatever its name.  A candidate, its size at most max_bytes,
\* that can be read and has null bytes after byte 2048 only is loaded: it is
\* not skipped.
\* ------------------------------------------------------------------------
C6_NulInSampleBinary ==
    \A k \in Handled :
        /\ (Loaded(k).fault # "stat" /\ Size(k) <= args.max_bytes /\ NulIn(k, 1, 2048))
              => C6_Binary(k)
        /\ (Loaded(k).fault = "none" /\ Size(k) <= args.max_bytes
              /\ ~NulIn(k, 1, 2048) /\ NulIn(k, 2049, Size(k)))
              => /\ loads[k].text # None
                 /\ Block(out, k)[1].kind = "start"

\* the only null byte is byte 2048, the size is within the limit
C6_Witness ==
    /\ pc = "exit0"
    /\ Len(loads) = 1
    /\ Size(1) <= args.max_bytes
    /\ ~NulIn(1, 1, 2047)
    /\ NulIn(1, 2048, 2048)
    /\ files[1][Len(files[1])] = N_Dockerfile

\* ------------------------------------------------------------------------
\* C10.  A candidate that passes the size and the binary checks and is no
\* valid UTF-8 is loaded as Latin-1 with the fallback note; it counts as
\* written, its block is the full one, and the note stands in that block.
\* ------------------------------------------------------------------------
C10_FallbackNoteInBlock ==
    \A k \in Handled :
        (/\ Loaded(k).fault = "none"
         /\ Size(k) <= args.max_bytes
         /\ ~NulIn(k, 1, 2048)
         /\ ~Utf8Valid(Loaded(k).data))
        => /\ loads[k].text = Some(Latin1Decode(Loaded(k).data))
           /\ loads[k].note = Some(LATIN1_NOTE)
           /\ written = Cardinality(WithText)
           /\ Block(out, k)[1].kind = "start"
           /\ Len(OfKind(Block(out, k), "end")) = 1
           /\ \E i \in 1..Len(Block(out, k)) :
                 Contains(Block(out, k)[i].text, LATIN1_NOTE)

\* a file of the one byte 0xFF is loaded with the fallback note, and no line
\* of the document holds the note
C10_Witness ==
    /\ pc = "exit0"
    /\ Len(loads) = 1
    /\ Loaded(1).data = <<255>>
    /\ loads[1].note = Some(LATIN1_NOTE)
    /\ \A i \in 1..Len(out) : ~Contains(out[i].text, LATIN1_NOTE)

\* ------------------------------------------------------------------------
\* C8.  A run that follows a run with the same arguments, nothing else
\* having changed the tree, writes the same document, byte for byte, but for
\* the "Generated:" line.
\* ------------------------------------------------------------------------
C8_Bytes(doc) ==
    LET Kept(l) == l.kind # "generated" IN Render(SelectSeq(doc, Kept))

C8_SecondRunIdentical ==
    (run >= 2 /\ pc = "exit0") => C8_Bytes(out) = C8_Bytes(prev)

\* the second run with neither root nor output given: local.txt, written by
\* the first run into the root, is now a candidate
C8_Witness ==
    /\ run = 2
    /\ pc = "exit0"
    /\ args.root = None
    /\ args.output = None
    /\ Len(BlockStarts(out)) = Len(BlockStarts(prev)) + 1
    /\ \E k \in 1..Len(files) : files[k] = Append(script_dir, LOCAL_TXT)

====
